---- MODULE Spec2Model ----
(***************************************************************************)
(* The `/skip` plugin (prow/plugins/skip/skip.go): one invocation of       *)
(* handle on a generic comment event.  Every collaborator call the handler *)
(* makes (GetPullRequest, GetPresubmits, GetCombinedStatus,                *)
(* FilterPresubmits, CreateStatus, CreateComment) is one step; its result  *)
(* is chosen by the environment.  The calls made on the GitHub client and  *)
(* on the other collaborators are recorded, in order, in `calls`.          *)
(***************************************************************************)
EXTENDS Integers, Sequences, FiniteSets, TLC

VARIABLES
    e,                  \* the github.GenericCommentEvent handed to handle
    pc,                 \* position of the invocation inside handle
    pr,                 \* result of gc.GetPullRequest
    presubmits,         \* result of c.GetPresubmits
    combinedStatus,     \* result of gc.GetCombinedStatus
    filteredPresubmits, \* result of trigger.FilterPresubmits
    idx,                \* position of `for _, job := range presubmits`
    resp,               \* the message handed to gc.CreateComment
    calls,              \* collaborator calls made so far, in order
    ret,                \* what handle returned: "nil", "err", or "none" while running
    env,                \* what the collaborators hold when two invocations are followed
    remote,             \* the statuses GitHub holds for the head commit
    other,              \* the second invocation of handle, while it is not the one stepping
    scan                \* one evaluation of statusExists and isSuccess

\* the variables of one invocation of handle
locals == <<e, pc, pr, presubmits, combinedStatus, filteredPresubmits, idx, resp, calls, ret>>

vars == <<e, pc, pr, presubmits, combinedStatus, filteredPresubmits, idx, resp, calls, ret,
          env, remote, other, scan>>

----------------------------------------------------------------------------
(* Bounds of the model *)

\* longest list of presubmits c.GetPresubmits returns
MaxPresubmits == 2
\* longest list of statuses in a combined status
MaxStatuses == 2
\* largest number of presubmits trigger.FilterPresubmits returns
MaxFiltered == 1

----------------------------------------------------------------------------
(* Values *)

StatusSuccess == "success"
StatusPending == "pending"
StatusFailure == "failure"
StatusError   == "error"

GenericCommentActionCreated == "created"

\* states a reported status can carry; the handler only tells success from
\* the rest, so one failing and one unfinished state stand for the others
States == {StatusSuccess, StatusPending, StatusFailure}

Contexts == {"ci/unit", "ci/lint"}
Names    == {"unit", "lint"}
SHAs     == {"head1"}

\* The comment bodies of the events, as sequences of characters (a character
\* outside ASCII is written as its code point).
Bodies ==
    { <<"/", "s", "k", "i", "p">>,
      <<"/", "s", "k", "i", "p", "\n", "/", "t", "e", "s", "t">>,
      <<"/", "t", "e", "s", "t", "\n", "/", "S", "U+212A", "I", "P", " ", "\r", "\n", "x">>,
      <<"/", "s", "k", "i", "p", " ", "x">>,
      <<"/", "s", "k", "i", "p", "p">>,
      <<" ", "/", "s", "k", "i", "p">>,
      <<"x", "\r", "/", "s", "k", "i", "p">>,
      <<"/", "s", "k", "i">>,
      <<"/", "t", "e", "s", "t">>,
      <<>> }

----------------------------------------------------------------------------
(* skipRe = regexp.MustCompile(`(?mi)^/skip\s*$`) *)

\* \s of Go's regexp syntax: [\t\n\f\r ]
IsSpace(c) == c \in {"\t", "\n", "\f", "\r", " "}

\* (?i): a letter of the pattern matches either case of it and the characters
\* that fold to it (U+017F for s, U+212A for k)
Fold(c) ==
    CASE c \in {"S", "U+017F"} -> "s"
      [] c \in {"K", "U+212A"} -> "k"
      [] c = "I" -> "i"
      [] c = "P" -> "p"
      [] OTHER   -> c

\* (?m): ^ matches at the beginning of the text and after a newline
BeginLine(body, i) == i = 1 \/ body[i - 1] = "\n"

\* (?m): $ matches at the end of the text and before a newline
EndLine(body, j) == j = Len(body) + 1 \/ body[j] = "\n"

skipLiteral == <<"/", "s", "k", "i", "p">>

\* the pattern matches with ^ at position i
MatchAt(body, i) ==
    /\ BeginLine(body, i)
    /\ i + Len(skipLiteral) - 1 <= Len(body)
    /\ \A k \in 1..Len(skipLiteral) : Fold(body[i + k - 1]) = skipLiteral[k]
    /\ \E j \in (i + Len(skipLiteral))..(Len(body) + 1) :
          /\ \A s \in (i + Len(skipLiteral))..(j - 1) : IsSpace(body[s])
          /\ EndLine(body, j)

skipRe_MatchString(body) == \E i \in 1..Len(body) : MatchAt(body, i)

----------------------------------------------------------------------------
(* Collaborator calls, as recorded *)

NoStatus == [State |-> "", Description |-> "", Context |-> ""]

NoResp == [kind |-> "", context |-> ""]

\* one call: the collaborator, the commit it is addressed to, the status or
\* the message it carries, and whether it succeeded (returned a nil error)
Call(op, ref, status, text, ok) ==
    [op |-> op, ref |-> ref, status |-> status, text |-> text, ok |-> ok]

NoPR == [HeadSHA |-> ""]

\* the values of env, other and scan where they play no part
NoEnv == [config |-> <<>>, initial |-> <<>>, overlap |-> <<{}, {}>>]

NoRun == [id |-> 0]

NoScan == [applied |-> FALSE]

----------------------------------------------------------------------------
(* What the collaborators can return *)

\* config.Presubmit, as far as the handler reads it
Jobs == [Name : Names, Context : Contexts, Required : BOOLEAN]

\* the checks configured for a repository: each reports under its own context
PresubmitLists ==
    UNION { { s \in [1..n -> Jobs] :
                \A a, b \in 1..n : s[a].Context = s[b].Context => a = b }
            : n \in 0..MaxPresubmits }

\* github.Status, as far as the handler reads it
StatusEntries == [Context : Contexts, State : States]

StatusLists == UNION { [1..n -> StatusEntries] : n \in 0..MaxStatuses }

\* github.CombinedStatus
CombinedStatuses == [State : States, Statuses : StatusLists]

\* the presubmits trigger.FilterPresubmits keeps, as far as the handler reads them
FilteredSets ==
    { f \in SUBSET [Name : Names, Context : Contexts] : Cardinality(f) <= MaxFiltered }

----------------------------------------------------------------------------
(* Helpers of skip.go *)

\* config.Presubmit.ContextRequired
ContextRequired(job) == job.Required

\* skip.go:165-172, a scan of the list from position k on
RECURSIVE statusExistsFrom(_, _, _)
statusExistsFrom(job, statuses, k) ==
    IF k > Len(statuses) THEN FALSE
    ELSE IF statuses[k].Context = job.Context THEN TRUE
    ELSE statusExistsFrom(job, statuses, k + 1)

\* the scan returning after the first entry of the list
statusExists_FirstEntryOnly(job, statuses) ==
    statuses # <<>> /\ Head(statuses).Context = job.Context

\* the scan answering for the list instead of for the job's context
statusExists_AnyStatus(job, statuses) == Len(statuses) > 0

statusExists(job, statuses) == statusExistsFrom(job, statuses, 1)

\* skip.go:174-181
RECURSIVE isSuccessFrom(_, _, _)
isSuccessFrom(job, statuses, k) ==
    IF k > Len(statuses) THEN FALSE
    ELSE IF statuses[k].Context = job.Context /\ statuses[k].State = StatusSuccess THEN TRUE
    ELSE isSuccessFrom(job, statuses, k + 1)

\* the scan deciding on the first entry of the job's context
RECURSIVE isSuccess_FirstEntry(_, _)
isSuccess_FirstEntry(job, statuses) ==
    IF statuses = <<>> THEN FALSE
    ELSE IF Head(statuses).Context = job.Context THEN Head(statuses).State = StatusSuccess
    ELSE isSuccess_FirstEntry(job, Tail(statuses))

isSuccess(job, statuses) == isSuccessFrom(job, statuses, 1)

\* the closure comparing the context against the filtered presubmit's name
triggerWillHandle_ContextAgainstName(p, filtered) ==
    \E presubmit \in filtered : p.Name = presubmit.Name /\ p.Context = presubmit.Name

\* the closure comparing names only
triggerWillHandle_NameOnly(p, filtered) ==
    \E presubmit \in filtered : p.Name = presubmit.Name

\* skip.go:123-130
triggerWillHandle(p, filtered) ==
    \E presubmit \in filtered : p.Name = presubmit.Name /\ p.Context = presubmit.Context

\* the loop body without `|| isSuccess(job, statuses)`
ReachesCreateStatus_NoSuccessTest(job, statuses, filtered) ==
    IF ~statusExists(job, statuses) THEN FALSE
    ELSE IF triggerWillHandle(job, filtered) THEN FALSE
    ELSE IF ContextRequired(job) THEN FALSE
    ELSE TRUE

\* the loop body passing over the contexts an earlier invocation has written,
\* as if the package kept them
ReachesCreateStatus_RemembersWritten(job, statuses, filtered) ==
    IF ~statusExists(job, statuses) \/ isSuccess(job, statuses) THEN FALSE
    ELSE IF triggerWillHandle(job, filtered) THEN FALSE
    ELSE IF ContextRequired(job) THEN FALSE
    ELSE IF other.id = 1 /\ \E k \in 1..Len(other.calls) :
                               /\ other.calls[k].op = "CreateStatus"
                               /\ other.calls[k].status.Context = job.Context
         THEN FALSE
    ELSE TRUE

\* the loop body without `if job.ContextRequired() { continue }`
ReachesCreateStatus_NoRequired(job, statuses, filtered) ==
    IF ~statusExists(job, statuses) \/ isSuccess(job, statuses) THEN FALSE
    ELSE IF triggerWillHandle(job, filtered) THEN FALSE
    ELSE TRUE

\* skip.go:134-149: the three `continue`s of the loop body; TRUE when the
\* iteration for job goes on to gc.CreateStatus
ReachesCreateStatus(job, statuses, filtered) ==
    IF ~statusExists(job, statuses) \/ isSuccess(job, statuses) THEN FALSE
    ELSE IF triggerWillHandle(job, filtered) THEN FALSE
    ELSE IF ContextRequired(job) THEN FALSE
    ELSE TRUE

\* the loop stopping one job short of the end of the list
RECURSIVE NextCreateStatus_StopsShort(_, _, _, _)
NextCreateStatus_StopsShort(jobs, statuses, filtered, k) ==
    IF k >= Len(jobs) THEN Len(jobs) + 1
    ELSE IF ReachesCreateStatus(jobs[k], statuses, filtered) THEN k
    ELSE NextCreateStatus_StopsShort(jobs, statuses, filtered, k + 1)

\* skip.go:132: the loop runs on from position k to the next iteration that
\* calls gc.CreateStatus; Len(jobs) + 1 when it runs to its end
RECURSIVE NextCreateStatus(_, _, _, _)
NextCreateStatus(jobs, statuses, filtered, k) ==
    IF k > Len(jobs) THEN k
    ELSE IF ReachesCreateStatus(jobs[k], statuses, filtered) THEN k
    ELSE NextCreateStatus(jobs, statuses, filtered, k + 1)

\* the status written back with the state the job had failed with
SkippedStatus_Failure(context) ==
    [State |-> StatusFailure, Description |-> "Skipped", Context |-> context]

\* skip.go:151-155
SkippedStatus(context) ==
    [State |-> StatusSuccess, Description |-> "Skipped", Context |-> context]

----------------------------------------------------------------------------
Events ==
    [IsPR : BOOLEAN, IssueState : {"open", "closed"},
     Action : {"created", "edited", "deleted"}, Body : Bodies]

Init ==
    /\ e \in Events
    /\ pc = "start"
    /\ pr = NoPR
    /\ presubmits = <<>>
    /\ combinedStatus = [State |-> "", Statuses |-> <<>>]
    /\ filteredPresubmits = {}
    /\ idx = 0
    /\ resp = NoResp
    /\ calls = <<>>
    /\ ret = "none"
    /\ env = NoEnv
    /\ remote = <<>>
    /\ other = NoRun
    /\ scan = NoScan

\* the gate without the test of e.Action
Gate_AnyAction ==
    /\ pc = "start"
    /\ IF ~e.IsPR \/ e.IssueState # "open"
       THEN pc' = "done" /\ ret' = "nil"
       ELSE IF ~skipRe_MatchString(e.Body)
            THEN pc' = "done" /\ ret' = "nil"
            ELSE pc' = "GetPullRequest" /\ ret' = ret
    /\ UNCHANGED <<e, pr, presubmits, combinedStatus, filteredPresubmits, idx, resp, calls>>

\* skip.go:73-79, the two early returns
Gate ==
    /\ pc = "start"
    /\ IF ~e.IsPR \/ e.IssueState # "open" \/ e.Action # GenericCommentActionCreated
       THEN pc' = "done" /\ ret' = "nil"
       ELSE IF ~skipRe_MatchString(e.Body)
            THEN pc' = "done" /\ ret' = "nil"
            ELSE pc' = "GetPullRequest" /\ ret' = ret
    /\ UNCHANGED <<e, pr, presubmits, combinedStatus, filteredPresubmits, idx, resp, calls>>

\* skip.go:85-90
GetPullRequest ==
    /\ pc = "GetPullRequest"
    /\ \/ /\ calls' = Append(calls, Call("GetPullRequest", "", NoStatus, NoResp, TRUE))
          /\ \E sha \in SHAs : pr' = [HeadSHA |-> sha]
          /\ pc' = "GetPresubmits"
          /\ resp' = resp
       \/ /\ calls' = Append(calls, Call("GetPullRequest", "", NoStatus, NoResp, FALSE))
          /\ resp' = [kind |-> "Cannot get PR", context |-> ""]
          /\ pc' = "CreateComment"
          /\ pr' = pr
    /\ UNCHANGED <<e, presubmits, combinedStatus, filteredPresubmits, idx, ret>>

\* the handler reporting a failed c.GetPresubmits with a comment, as it does the fetches
GetPresubmits_CommentsOnError ==
    /\ pc = "GetPresubmits"
    /\ \/ /\ calls' = Append(calls, Call("GetPresubmits", "", NoStatus, NoResp, TRUE))
          /\ presubmits' \in PresubmitLists
          /\ pc' = "GetCombinedStatus"
          /\ resp' = resp
       \/ /\ calls' = Append(calls, Call("GetPresubmits", "", NoStatus, NoResp, FALSE))
          /\ presubmits' = presubmits
          /\ pc' = "CreateComment"
          /\ resp' = [kind |-> "Cannot get presubmits", context |-> ""]
    /\ UNCHANGED <<e, pr, combinedStatus, filteredPresubmits, idx, ret>>

\* skip.go:91-104; the two SHA getters are run, if at all, inside c.GetPresubmits
GetPresubmits ==
    /\ pc = "GetPresubmits"
    /\ \/ /\ calls' = Append(calls, Call("GetPresubmits", "", NoStatus, NoResp, TRUE))
          /\ presubmits' \in PresubmitLists
          /\ pc' = "GetCombinedStatus"
          /\ ret' = ret
       \/ /\ calls' = Append(calls, Call("GetPresubmits", "", NoStatus, NoResp, FALSE))
          /\ presubmits' = presubmits
          /\ pc' = "done"
          /\ ret' = "err"
    /\ UNCHANGED <<e, pr, combinedStatus, filteredPresubmits, idx, resp>>

\* the test of combinedStatus.State placed after trigger.FilterPresubmits
GetCombinedStatus_ShortCircuitAfterFilter ==
    /\ pc = "GetCombinedStatus"
    /\ \/ /\ combinedStatus' \in CombinedStatuses
          /\ IF combinedStatus'.State = StatusSuccess
             THEN \/ /\ calls' = calls \o
                            <<Call("GetCombinedStatus", pr.HeadSHA, NoStatus, NoResp, TRUE),
                              Call("FilterPresubmits", "", NoStatus, NoResp, TRUE)>>
                     /\ pc' = "done" /\ ret' = "nil" /\ resp' = resp
                  \/ /\ calls' = calls \o
                            <<Call("GetCombinedStatus", pr.HeadSHA, NoStatus, NoResp, TRUE),
                              Call("FilterPresubmits", "", NoStatus, NoResp, FALSE)>>
                     /\ pc' = "CreateComment" /\ ret' = ret
                     /\ resp' = [kind |-> "Cannot get combined status", context |-> ""]
             ELSE /\ calls' = Append(calls, Call("GetCombinedStatus", pr.HeadSHA,
                                                 NoStatus, NoResp, TRUE))
                  /\ pc' = "FilterPresubmits" /\ ret' = ret /\ resp' = resp
       \/ /\ calls' = Append(calls, Call("GetCombinedStatus", pr.HeadSHA, NoStatus, NoResp, FALSE))
          /\ resp' = [kind |-> "Cannot get combined commit statuses", context |-> ""]
          /\ pc' = "CreateComment"
          /\ UNCHANGED <<combinedStatus, ret>>
    /\ UNCHANGED <<e, pr, presubmits, filteredPresubmits, idx>>

\* the fetch without `if combinedStatus.State == github.StatusSuccess { return nil }`
GetCombinedStatus_NoShortCircuit ==
    /\ pc = "GetCombinedStatus"
    /\ \/ /\ calls' = Append(calls, Call("GetCombinedStatus", pr.HeadSHA, NoStatus, NoResp, TRUE))
          /\ combinedStatus' \in CombinedStatuses
          /\ pc' = "FilterPresubmits"
          /\ UNCHANGED <<ret, resp>>
       \/ /\ calls' = Append(calls, Call("GetCombinedStatus", pr.HeadSHA, NoStatus, NoResp, FALSE))
          /\ resp' = [kind |-> "Cannot get combined commit statuses", context |-> ""]
          /\ pc' = "CreateComment"
          /\ UNCHANGED <<combinedStatus, ret>>
    /\ UNCHANGED <<e, pr, presubmits, filteredPresubmits, idx>>

\* skip.go:106-115
GetCombinedStatus ==
    /\ pc = "GetCombinedStatus"
    /\ \/ /\ calls' = Append(calls, Call("GetCombinedStatus", pr.HeadSHA, NoStatus, NoResp, TRUE))
          /\ combinedStatus' \in CombinedStatuses
          /\ IF combinedStatus'.State = StatusSuccess
             THEN pc' = "done" /\ ret' = "nil"
             ELSE pc' = "FilterPresubmits" /\ ret' = ret
          /\ resp' = resp
       \/ /\ calls' = Append(calls, Call("GetCombinedStatus", pr.HeadSHA, NoStatus, NoResp, FALSE))
          /\ resp' = [kind |-> "Cannot get combined commit statuses", context |-> ""]
          /\ pc' = "CreateComment"
          /\ UNCHANGED <<combinedStatus, ret>>
    /\ UNCHANGED <<e, pr, presubmits, filteredPresubmits, idx>>

\* the handler going on with no filtered presubmits when the filter fails
FilterPresubmits_IgnoresError ==
    /\ pc = "FilterPresubmits"
    /\ \/ /\ calls' = Append(calls, Call("FilterPresubmits", "", NoStatus, NoResp, TRUE))
          /\ filteredPresubmits' \in FilteredSets
       \/ /\ calls' = Append(calls, Call("FilterPresubmits", "", NoStatus, NoResp, FALSE))
          /\ filteredPresubmits' = {}
    /\ pc' = "range"
    /\ idx' = 1
    /\ UNCHANGED <<e, pr, presubmits, combinedStatus, ret, resp>>

\* skip.go:117-122
FilterPresubmits ==
    /\ pc = "FilterPresubmits"
    /\ \/ /\ calls' = Append(calls, Call("FilterPresubmits", "", NoStatus, NoResp, TRUE))
          /\ filteredPresubmits' \in FilteredSets
          /\ pc' = "range"
          /\ idx' = 1
          /\ resp' = resp
       \/ /\ calls' = Append(calls, Call("FilterPresubmits", "", NoStatus, NoResp, FALSE))
          /\ resp' = [kind |-> "Cannot get combined status", context |-> ""]
          /\ pc' = "CreateComment"
          /\ UNCHANGED <<filteredPresubmits, idx>>
    /\ UNCHANGED <<e, pr, presubmits, combinedStatus, ret>>

\* the loop commenting on a failed gc.CreateStatus and going on to the next job
CreateStatus_CommentsAndGoesOn ==
    /\ pc = "range"
    /\ LET k == NextCreateStatus(presubmits, combinedStatus.Statuses, filteredPresubmits, idx)
           context == presubmits[k].Context
           failed == [kind |-> "Cannot update PR status for context", context |-> context]
       IN  /\ k <= Len(presubmits)
           /\ \/ calls' = Append(calls, Call("CreateStatus", pr.HeadSHA,
                                              SkippedStatus(context), NoResp, TRUE))
              \/ \E posted \in BOOLEAN :
                    calls' = calls \o <<Call("CreateStatus", pr.HeadSHA,
                                             SkippedStatus(context), NoResp, FALSE),
                                        Call("CreateComment", "", NoStatus, failed, posted)>>
           /\ idx' = k + 1
           /\ UNCHANGED <<pc, resp>>
    /\ UNCHANGED <<e, pr, presubmits, combinedStatus, filteredPresubmits, ret>>

\* the loop logging a failed gc.CreateStatus and going on to the next job
CreateStatus_ContinuesOnError ==
    /\ pc = "range"
    /\ LET k == NextCreateStatus(presubmits, combinedStatus.Statuses, filteredPresubmits, idx)
           context == presubmits[k].Context
       IN  /\ k <= Len(presubmits)
           /\ \E ok \in BOOLEAN :
                 calls' = Append(calls, Call("CreateStatus", pr.HeadSHA,
                                             SkippedStatus(context), NoResp, ok))
           /\ idx' = k + 1
           /\ UNCHANGED <<pc, resp>>
    /\ UNCHANGED <<e, pr, presubmits, combinedStatus, filteredPresubmits, ret>>

\* skip.go:132-161: the loop runs to its next gc.CreateStatus
CreateStatus ==
    /\ pc = "range"
    /\ LET k == NextCreateStatus(presubmits, combinedStatus.Statuses, filteredPresubmits, idx)
           context == presubmits[k].Context
       IN  /\ k <= Len(presubmits)
           /\ \/ /\ calls' = Append(calls, Call("CreateStatus", pr.HeadSHA,
                                                 SkippedStatus(context), NoResp, TRUE))
                 /\ idx' = k + 1
                 /\ UNCHANGED <<pc, resp>>
              \/ /\ calls' = Append(calls, Call("CreateStatus", pr.HeadSHA,
                                                 SkippedStatus(context), NoResp, FALSE))
                 /\ resp' = [kind |-> "Cannot update PR status for context", context |-> context]
                 /\ pc' = "CreateComment"
                 /\ idx' = k
    /\ UNCHANGED <<e, pr, presubmits, combinedStatus, filteredPresubmits, ret>>

\* skip.go:132-162: the loop runs to its end without another gc.CreateStatus
Return ==
    /\ pc = "range"
    /\ NextCreateStatus(presubmits, combinedStatus.Statuses, filteredPresubmits, idx)
          > Len(presubmits)
    /\ pc' = "done"
    /\ ret' = "nil"
    /\ idx' = Len(presubmits) + 1
    /\ UNCHANGED <<e, pr, presubmits, combinedStatus, filteredPresubmits, resp, calls>>

\* the handler returning the reported error itself after posting the comment
CreateComment_ReturnsReportedError ==
    /\ pc = "CreateComment"
    /\ pc' = "done"
    /\ \E ok \in BOOLEAN :
          calls' = Append(calls, Call("CreateComment", "", NoStatus, resp, ok))
    /\ ret' = "err"
    /\ UNCHANGED <<e, pr, presubmits, combinedStatus, filteredPresubmits, idx, resp>>

\* skip.go:89, 110, 121, 159: `return gc.CreateComment(...)`
CreateComment ==
    /\ pc = "CreateComment"
    /\ pc' = "done"
    /\ \/ /\ calls' = Append(calls, Call("CreateComment", "", NoStatus, resp, TRUE))
          /\ ret' = "nil"
       \/ /\ calls' = Append(calls, Call("CreateComment", "", NoStatus, resp, FALSE))
          /\ ret' = "err"
    /\ UNCHANGED <<e, pr, presubmits, combinedStatus, filteredPresubmits, idx, resp>>

\* one invocation, its collaborators free to return anything
Next ==
    \/ Gate /\ UNCHANGED <<env, remote, other, scan>>
    \/ GetPullRequest /\ UNCHANGED <<env, remote, other, scan>>
    \/ GetPresubmits /\ UNCHANGED <<env, remote, other, scan>>
    \/ GetCombinedStatus /\ UNCHANGED <<env, remote, other, scan>>
    \/ FilterPresubmits /\ UNCHANGED <<env, remote, other, scan>>
    \/ CreateStatus /\ UNCHANGED <<env, remote, other, scan>>
    \/ Return /\ UNCHANGED <<env, remote, other, scan>>
    \/ CreateComment /\ UNCHANGED <<env, remote, other, scan>>

Spec == Init /\ [][Next]_vars
----------------------------------------------------------------------------
(* What an invocation did, read off the recorded calls *)

\* the contexts gc.CreateStatus was called for
WrittenContexts ==
    { calls[k].status.Context : k \in { j \in 1..Len(calls) : calls[j].op = "CreateStatus" } }

\* the contexts gc.CreateStatus was called for, in call order
RECURSIVE ContextsOf(_)
ContextsOf(cs) ==
    IF cs = <<>> THEN <<>>
    ELSE IF Head(cs).op = "CreateStatus"
         THEN <<Head(cs).status.Context>> \o ContextsOf(Tail(cs))
         ELSE ContextsOf(Tail(cs))

\* the states the fetched status list reports for a context
ReportedStates(context) ==
    { combinedStatus.Statuses[j].State :
        j \in { i \in 1..Len(combinedStatus.Statuses) :
                  combinedStatus.Statuses[i].Context = context } }

\* the (name, context) of a check is that of a presubmit the trigger plugin keeps
InOverlap(job) == [Name |-> job.Name, Context |-> job.Context] \in filteredPresubmits

\* the loop has gone past position k of the configured checks
LoopPassed(k) == pc = "done" /\ ret = "nil" /\ idx > Len(presubmits) /\ k <= Len(presubmits)

----------------------------------------------------------------------------
(* Properties *)

\* C1: no status write is ever issued for the context of a configured check
\* whose required flag is true, whatever its reported state and the overlap.
C1_RequiredNeverWritten ==
    \A k \in 1..Len(presubmits) :
        presubmits[k].Required => presubmits[k].Context \notin WrittenContexts

\* a finished loop that went over a required, failing check outside the
\* overlap, and wrote another check's status
C1_Witness ==
    \E k \in 1..Len(presubmits) :
        /\ LoopPassed(k)
        /\ presubmits[k].Required
        /\ ReportedStates(presubmits[k].Context) = {StatusFailure}
        /\ ~InOverlap(presubmits[k])
        /\ WrittenContexts # {}

\* C2: no status write is ever issued for a configured check whose
\* (name, context) is in the trigger-overlap set, even when it is
\* non-required and failing.
C2_OverlapNeverWritten ==
    \A k \in 1..Len(presubmits) :
        InOverlap(presubmits[k]) => presubmits[k].Context \notin WrittenContexts

\* a finished loop that went over a non-required, failing check of the overlap
C2_Witness ==
    \E k \in 1..Len(presubmits) :
        /\ LoopPassed(k)
        /\ ~presubmits[k].Required
        /\ ReportedStates(presubmits[k].Context) = {StatusFailure}
        /\ InOverlap(presubmits[k])

\* C3: when the fetched combined status has overall state success, no status
\* write is issued at all.
C3_SuccessNoWrite ==
    combinedStatus.State = StatusSuccess => WrittenContexts = {}

\* an invocation that ended on overall success although a non-required check
\* reports failure
C3_Witness ==
    /\ pc = "done"
    /\ combinedStatus.State = StatusSuccess
    /\ \E k \in 1..Len(presubmits) :
          /\ ~presubmits[k].Required
          /\ ReportedStates(presubmits[k].Context) = {StatusFailure}

\* C4: no status write is issued for a configured check whose context has no
\* entry in the fetched status list.
C4_NeverPostedNeverWritten ==
    \A k \in 1..Len(presubmits) :
        ReportedStates(presubmits[k].Context) = {}
            => presubmits[k].Context \notin WrittenContexts

\* a finished loop that went over a non-required check outside the overlap
\* that has no status, while another context has a failing one
C4_Witness ==
    \E k \in 1..Len(presubmits) :
        /\ LoopPassed(k)
        /\ ~presubmits[k].Required
        /\ ~InOverlap(presubmits[k])
        /\ ReportedStates(presubmits[k].Context) = {}
        /\ combinedStatus.Statuses # <<>>

\* C5: no status write is issued for a configured check that the fetched
\* status list reports as success.
C5_SuccessNeverWritten ==
    \A k \in 1..Len(presubmits) :
        StatusSuccess \in ReportedStates(presubmits[k].Context)
            => presubmits[k].Context \notin WrittenContexts

\* a finished loop, the overall state not success, that went over a
\* non-required check outside the overlap reported as success
C5_Witness ==
    \E k \in 1..Len(presubmits) :
        /\ LoopPassed(k)
        /\ combinedStatus.State = StatusFailure
        /\ ~presubmits[k].Required
        /\ ~InOverlap(presubmits[k])
        /\ StatusSuccess \in ReportedStates(presubmits[k].Context)

\* the invocation passed the gate, every fetch succeeded, the overall state was
\* not success, every status write succeeded, and handle has returned
RanToEnd ==
    /\ pc = "done"
    /\ \A k \in 1..Len(calls) : calls[k].ok
    /\ \E k \in 1..Len(calls) : calls[k].op = "FilterPresubmits"

\* the contexts, in configuration order, of the checks that have a status
\* entry, are not reported as success, are outside the overlap and not required
RECURSIVE EligibleContexts(_)
EligibleContexts(jobs) ==
    IF jobs = <<>> THEN <<>>
    ELSE LET job == Head(jobs)
             eligible == /\ ReportedStates(job.Context) # {}
                         /\ StatusSuccess \notin ReportedStates(job.Context)
                         /\ ~InOverlap(job)
                         /\ ~job.Required
         IN  (IF eligible THEN <<job.Context>> ELSE <<>>) \o EligibleContexts(Tail(jobs))

FailedWrite(k) == calls[k].op = "CreateStatus" /\ ~calls[k].ok

\* C7: once a status write fails, the only call that follows is one comment
\* naming the failed context, after which handle has returned; no other status
\* write (for a remaining check, or undoing an earlier one) is issued.
C7_FailFast ==
    \A k \in 1..Len(calls) :
        FailedWrite(k) =>
            /\ Len(calls) <= k + 1
            /\ pc \in {"CreateComment", "done"}
            /\ pc = "done" <=> Len(calls) = k + 1
            /\ Len(calls) = k + 1 =>
                  /\ calls[k + 1].op = "CreateComment"
                  /\ calls[k + 1].text.context = calls[k].status.Context
            /\ \A j \in 1..(k - 1) :
                  calls[j].op = "CreateStatus" =>
                      calls[j].ok /\ calls[j].status.State = StatusSuccess

\* the first of two eligible checks could not be written: the handler
\* commented and returned, the second was not attempted
C7_Witness ==
    /\ pc = "done"
    /\ Len(EligibleContexts(presubmits)) = 2
    /\ Len(ContextsOf(calls)) = 1
    /\ FailedWrite(Len(calls) - 1)
    /\ calls[Len(calls)].op = "CreateComment"

\* the gate of handle admits the event
Admitted ==
    /\ e.IsPR
    /\ e.IssueState = "open"
    /\ e.Action = "created"
    /\ skipRe_MatchString(e.Body)

\* C8: for an event the gate does not admit, handle returns nil and calls no
\* collaborator.
C8_GateDiscardsSilently ==
    ~Admitted => /\ calls = <<>>
                 /\ pc \in {"start", "done"}
                 /\ pc = "done" => ret = "nil"

\* a created comment on an open pull request whose only /skip line carries
\* more than the command was discarded
C8_Witness ==
    /\ pc = "done"
    /\ ret = "nil"
    /\ e.IsPR /\ e.IssueState = "open" /\ e.Action = "created"
    /\ e.Body = <<"/", "s", "k", "i", "p", " ", "x">>

\* the fetches that are reported to the user when they fail
UpstreamFetches == {"GetPullRequest", "GetCombinedStatus", "FilterPresubmits"}

FailedFetch(k) == calls[k].op \in UpstreamFetches /\ ~calls[k].ok

\* C9 as stated: after a failed upstream fetch handle returns a non-nil error,
\* also when the comment reporting it was posted.
C9_FetchFailureReturnsError ==
    (pc = "done" /\ \E k \in 1..Len(calls) : FailedFetch(k)) => ret = "err"

\* C9, amended: after a failed upstream fetch handle returns what posting the
\* comment returned: nil when the comment was posted, an error when it was not.
C9_FetchFailureReturnsCommentResult ==
    (pc = "done" /\ \E k \in 1..Len(calls) : FailedFetch(k)) =>
        /\ calls[Len(calls)].op = "CreateComment"
        /\ ret = IF calls[Len(calls)].ok THEN "nil" ELSE "err"

\* the combined status could not be fetched, the comment was posted, and
\* handle returned nil
C9_Witness ==
    /\ pc = "done"
    /\ ret = "nil"
    /\ Len(calls) >= 2
    /\ calls[Len(calls) - 1].op = "GetCombinedStatus"
    /\ FailedFetch(Len(calls) - 1)
    /\ calls[Len(calls)].op = "CreateComment" /\ calls[Len(calls)].ok

\* the message a failed fetch is reported with
ReportOf(op) ==
    CASE op = "GetPullRequest"    -> "Cannot get PR"
      [] op = "GetCombinedStatus" -> "Cannot get combined commit statuses"
      [] op = "FilterPresubmits"  -> "Cannot get combined status"

\* C10: after a failed upstream fetch the only call that follows is one
\* comment reporting it, after which handle has returned; no status write is
\* issued in the invocation.
C10_FetchFailureAborts ==
    \A k \in 1..Len(calls) :
        FailedFetch(k) =>
            /\ Len(calls) <= k + 1
            /\ pc \in {"CreateComment", "done"}
            /\ pc = "done" <=> Len(calls) = k + 1
            /\ Len(calls) = k + 1 =>
                  /\ calls[k + 1].op = "CreateComment"
                  /\ calls[k + 1].text.kind = ReportOf(calls[k].op)
            /\ WrittenContexts = {}

\* the trigger overlap could not be resolved although a check was eligible:
\* one comment, no write
C10_Witness ==
    /\ pc = "done"
    /\ Len(calls) >= 2
    /\ calls[Len(calls) - 1].op = "FilterPresubmits"
    /\ FailedFetch(Len(calls) - 1)
    /\ calls[Len(calls)].op = "CreateComment"
    /\ \E k \in 1..Len(presubmits) :
          /\ ~presubmits[k].Required
          /\ ReportedStates(presubmits[k].Context) = {StatusFailure}

\* the positions of the calls made on a collaborator
CallsOf(op) == { k \in 1..Len(calls) : calls[k].op = op }

\* C11: when resolving the configured checks fails, handle returns an error,
\* posts no comment, does not fetch the combined status and writes no status.
C11_ConfigFailureReturnsError ==
    \A k \in CallsOf("GetPresubmits") :
        ~calls[k].ok =>
            /\ pc = "done"
            /\ ret = "err"
            /\ k = Len(calls)
            /\ CallsOf("CreateComment") = {}
            /\ CallsOf("GetCombinedStatus") = {}
            /\ CallsOf("CreateStatus") = {}

\* the pull request was fetched and resolving the checks failed
C11_Witness ==
    /\ pc = "done"
    /\ Len(calls) = 2
    /\ calls[1].op = "GetPullRequest" /\ calls[1].ok
    /\ calls[2].op = "GetPresubmits" /\ ~calls[2].ok

\* C12: every status write carries state success and description "Skipped",
\* is addressed to the head commit of the fetched pull request, and names the
\* context of a configured check.
C12_WritesAreSkips ==
    \A k \in CallsOf("CreateStatus") :
        /\ calls[k].status.State = "success"
        /\ calls[k].status.Description = "Skipped"
        /\ calls[k].ref \in SHAs
        /\ calls[k].ref = pr.HeadSHA
        /\ \E j \in 1..Len(presubmits) : presubmits[j].Context = calls[k].status.Context

\* two status writes were issued, for two checks reported as pending and failure
C12_Witness ==
    /\ Cardinality(CallsOf("CreateStatus")) = 2
    /\ ReportedStates(calls[Len(calls)].status.Context) \in {{StatusPending}, {StatusFailure}}
    /\ calls[Len(calls)].op = "CreateStatus"

\* C16: a comment is the last call of an invocation, so there is at most one
\* and no fetch, write or second comment follows it; and no comment is posted
\* unless a collaborator call failed.
C16_CommentIsLastCall ==
    /\ \A k \in CallsOf("CreateComment") :
          /\ k = Len(calls)
          /\ pc = "done"
          /\ \E j \in 1..(k - 1) : ~calls[j].ok
    /\ Cardinality(CallsOf("CreateComment")) <= 1

\* a status was written, the next write failed, and the comment was posted
C16_Witness ==
    /\ pc = "done"
    /\ Len(calls) >= 3
    /\ calls[Len(calls)].op = "CreateComment"
    /\ FailedWrite(Len(calls) - 1)
    /\ calls[Len(calls) - 2].op = "CreateStatus" /\ calls[Len(calls) - 2].ok

\* C17: the test of the overall state comes after the configured checks are
\* resolved and before the trigger overlap is: on overall success the overlap
\* is never resolved, no comment is posted and handle returns nil; the
\* combined status is fetched only after the checks were resolved, and a
\* failure to resolve them ends the invocation with an error before that fetch.
C17_ShortCircuitBeforeOverlap ==
    /\ combinedStatus.State = "success" =>
          /\ pc = "done"
          /\ ret = "nil"
          /\ CallsOf("FilterPresubmits") = {}
          /\ CallsOf("CreateComment") = {}
    /\ \A k \in CallsOf("GetCombinedStatus") :
          \E j \in 1..(k - 1) : calls[j].op = "GetPresubmits" /\ calls[j].ok
    /\ \A k \in CallsOf("GetPresubmits") :
          ~calls[k].ok => ret = "err" /\ CallsOf("GetCombinedStatus") = {}

\* checks were resolved and the combined status came back as success
C17_Witness ==
    /\ pc = "done"
    /\ combinedStatus.State = "success"
    /\ presubmits # <<>>
    /\ calls[Len(calls)].op = "GetCombinedStatus"
    /\ calls[Len(calls) - 1].op = "GetPresubmits"

----------------------------------------------------------------------------
(* The two scans of a status list, evaluated for one job and one list *)

\* the job and the list the scans are evaluated for
ScanInputs == [job : Jobs, statuses : StatusLists]

InitScan ==
    /\ e = [IsPR |-> TRUE, IssueState |-> "open", Action |-> "created",
            Body |-> <<"/", "s", "k", "i", "p">>]
    /\ pc = "start"
    /\ pr = NoPR
    /\ presubmits = <<>>
    /\ combinedStatus = [State |-> "", Statuses |-> <<>>]
    /\ filteredPresubmits = {}
    /\ idx = 0
    /\ resp = NoResp
    /\ calls = <<>>
    /\ ret = "none"
    /\ env = NoEnv
    /\ remote = <<>>
    /\ other = NoRun
    /\ \E in \in ScanInputs : scan = [applied |-> FALSE, job |-> in.job, statuses |-> in.statuses]

\* skip.go:134: `!statusExists(job, statuses) || isSuccess(job, statuses)`
EvaluateScans ==
    /\ ~scan.applied
    /\ scan' = [applied |-> TRUE, job |-> scan.job, statuses |-> scan.statuses,
                exists |-> statusExists(scan.job, scan.statuses),
                success |-> isSuccess(scan.job, scan.statuses)]
    /\ UNCHANGED <<locals, env, remote, other>>

NextScan == EvaluateScans

SpecScan == InitScan /\ [][NextScan]_vars

\* the Status Index of the spec: context -> entry, a later entry of a context
\* replacing an earlier one
RECURSIVE StatusIndex(_)
StatusIndex(statuses) ==
    IF statuses = <<>> THEN << >>
    ELSE LET n     == Len(statuses)
             front == StatusIndex(SubSeq(statuses, 1, n - 1))
         IN  [c \in (DOMAIN front) \cup {statuses[n].Context} |->
                 IF c = statuses[n].Context THEN statuses[n] ELSE front[c]]

\* each context appears at most once in the list
UniqueContexts(statuses) ==
    \A a, b \in 1..Len(statuses) : statuses[a].Context = statuses[b].Context => a = b

\* C18: on a list with each context at most once, "statusExists and not
\* isSuccess" holds exactly when the index has an entry for the job's context
\* whose state is not success; on any list, isSuccess holds exactly when some
\* entry of the job's context is success.
C18_ScansAgreeWithIndex ==
    scan.applied =>
        LET index   == StatusIndex(scan.statuses)
            context == scan.job.Context
        IN  /\ UniqueContexts(scan.statuses) =>
                  ((scan.exists /\ ~scan.success)
                      <=> (context \in DOMAIN index /\ index[context].State # "success"))
            /\ scan.success <=>
                  \E k \in 1..Len(scan.statuses) :
                      /\ scan.statuses[k].Context = context
                      /\ scan.statuses[k].State = "success"
            /\ scan.exists <=>
                  \E k \in 1..Len(scan.statuses) : scan.statuses[k].Context = context

\* the scans were evaluated on a list that reports the job's context twice,
\* as success and then as failure: they take the job for a success, the index
\* keeps the failure
C18_Witness ==
    /\ scan.applied
    /\ Len(scan.statuses) = 2
    /\ scan.statuses[1] = [Context |-> scan.job.Context, State |-> "success"]
    /\ scan.statuses[2] = [Context |-> scan.job.Context, State |-> "failure"]
    /\ scan.success
    /\ StatusIndex(scan.statuses)[scan.job.Context].State = "failure"

----------------------------------------------------------------------------
(* Two invocations of handle for one pull request.  The collaborators answer *)
(* from what they hold: the configured checks, the statuses of the head      *)
(* commit, and for each invocation the presubmits its comment triggers.      *)

\* status lists as GitHub holds them: the latest report of each context
RemoteLists == { s \in StatusLists : UniqueContexts(s) }

\* the overall state of a combined status: success iff every entry is
StateOf(statuses) ==
    IF \A k \in 1..Len(statuses) : statuses[k].State = StatusSuccess THEN StatusSuccess
    ELSE IF \E k \in 1..Len(statuses) : statuses[k].State = StatusFailure THEN StatusFailure
    ELSE StatusPending

\* what gc.GetCombinedStatus answers from the statuses held
Combined(statuses) == [State |-> StateOf(statuses), Statuses |-> statuses]

\* the statuses held after a report: the latest report of a context wins
Report(statuses, status) ==
    IF \E k \in 1..Len(statuses) : statuses[k].Context = status.Context
    THEN [k \in 1..Len(statuses) |->
             IF statuses[k].Context = status.Context
             THEN [Context |-> status.Context, State |-> status.State]
             ELSE statuses[k]]
    ELSE Append(statuses, [Context |-> status.Context, State |-> status.State])

\* what trigger.FilterPresubmits can keep of the configured checks
OverlapsOf(config) ==
    { f \in FilteredSets :
        \A x \in f : \E k \in 1..Len(config) :
            x = [Name |-> config[k].Name, Context |-> config[k].Context] }

\* the event of both comments
PairEvent ==
    [IsPR |-> TRUE, IssueState |-> "open", Action |-> "created",
     Body |-> <<"/", "s", "k", "i", "p", "\n", "/", "t", "e", "s", "t">>]

\* an invocation that has not started
Fresh(id, ev) ==
    [id |-> id, e |-> ev, pc |-> "start", pr |-> NoPR, presubmits |-> <<>>,
     combinedStatus |-> [State |-> "", Statuses |-> <<>>], filteredPresubmits |-> {},
     idx |-> 0, resp |-> NoResp, calls |-> <<>>, ret |-> "none"]

\* the invocation that is stepping
self == 3 - other.id

InitPair ==
    /\ e = PairEvent
    /\ pc = "start"
    /\ pr = NoPR
    /\ presubmits = <<>>
    /\ combinedStatus = [State |-> "", Statuses |-> <<>>]
    /\ filteredPresubmits = {}
    /\ idx = 0
    /\ resp = NoResp
    /\ calls = <<>>
    /\ ret = "none"
    /\ \E config \in PresubmitLists, initial \in RemoteLists :
          \E o1, o2 \in OverlapsOf(config) :
              env = [config |-> config, initial |-> initial, overlap |-> <<o1, o2>>]
    /\ remote = env.initial
    /\ other = Fresh(2, PairEvent)
    /\ scan = NoScan

\* both comments trigger the same presubmits
InitSame == InitPair /\ env.overlap[1] = env.overlap[2]

\* the calls the step has added
NewCalls == SubSeq(calls', Len(calls) + 1, Len(calls'))

\* a successful gc.CreateStatus is a report to the statuses held
Reported ==
    remote' = IF NewCalls # <<>> /\ NewCalls[1].op = "CreateStatus" /\ NewCalls[1].ok
              THEN Report(remote, NewCalls[1].status)
              ELSE remote

\* what a collaborator can answer a step with from what is held
Answers ==
    /\ presubmits' \in {presubmits, env.config}
    /\ combinedStatus' \in {combinedStatus, Combined(remote)}
    /\ filteredPresubmits' \in {filteredPresubmits, env.overlap[self]}

\* the collaborators answered the step from what they hold
Served ==
    /\ \A k \in 1..Len(NewCalls) :
          NewCalls[k].ok =>
              /\ NewCalls[k].op = "GetPresubmits" => presubmits' = env.config
              /\ NewCalls[k].op = "GetCombinedStatus" => combinedStatus' = Combined(remote)
              /\ NewCalls[k].op = "FilterPresubmits" => filteredPresubmits' = env.overlap[self]
    /\ Reported
    /\ UNCHANGED <<env, other, scan>>

\* a step of handle with its collaborators answering from what they hold
Serve(step) == Answers /\ step /\ Served

\* what a collaborator can answer a step with when it answers as it did the
\* first invocation
Repeats ==
    /\ pr' \in {pr, other.pr}
    /\ presubmits' \in {presubmits, other.presubmits}
    /\ combinedStatus' \in {combinedStatus, other.combinedStatus}
    /\ filteredPresubmits' \in {filteredPresubmits, other.filteredPresubmits}

\* the calls of the step ended, and were answered, as the same calls of the
\* first invocation
Replayed ==
    /\ \A k \in 1..Len(NewCalls) :
          /\ Len(calls) + k <= Len(other.calls)
                => NewCalls[k].ok = other.calls[Len(calls) + k].ok
          /\ NewCalls[k].ok =>
                /\ NewCalls[k].op = "GetPullRequest" => pr' = other.pr
                /\ NewCalls[k].op = "GetPresubmits" => presubmits' = other.presubmits
                /\ NewCalls[k].op = "GetCombinedStatus" => combinedStatus' = other.combinedStatus
                /\ NewCalls[k].op = "FilterPresubmits"
                      => filteredPresubmits' = other.filteredPresubmits
    /\ Reported
    /\ UNCHANGED <<env, other, scan>>

\* a step of handle with its collaborators answering as they answered the
\* first invocation
Replay(step) == Repeats /\ step /\ Replayed

\* the other invocation goes on
Swap ==
    /\ other' = [id |-> self, e |-> e, pc |-> pc, pr |-> pr, presubmits |-> presubmits,
                 combinedStatus |-> combinedStatus, filteredPresubmits |-> filteredPresubmits,
                 idx |-> idx, resp |-> resp, calls |-> calls, ret |-> ret]
    /\ e' = other.e
    /\ pc' = other.pc
    /\ pr' = other.pr
    /\ presubmits' = other.presubmits
    /\ combinedStatus' = other.combinedStatus
    /\ filteredPresubmits' = other.filteredPresubmits
    /\ idx' = other.idx
    /\ resp' = other.resp
    /\ calls' = other.calls
    /\ ret' = other.ret
    /\ UNCHANGED <<env, remote, scan>>

\* handleGenericComment is called again once the first invocation has returned
Again ==
    /\ self = 1
    /\ pc = "done"
    /\ other.pc = "start"
    /\ Swap

\* the invocations are run side by side: the other one goes on before a read
\* or a write of the statuses, or when this one has returned
Switch ==
    /\ pc \in {"GetCombinedStatus", "range", "done"}
    /\ other.pc # "done"
    /\ Swap

\* the second invocation is stepping, the first has returned
SecondRuns == other.id = 1 /\ other.pc = "done"

\* a step of the first invocation, or of the second, which gets the answers
\* the first one got
Feed(step) == IF SecondRuns THEN Replay(step) ELSE Serve(step)

\* an invocation, then a second one with identical inputs
NextReplay ==
    \/ Feed(Gate)
    \/ Feed(GetPullRequest)
    \/ Feed(GetPresubmits)
    \/ Feed(GetCombinedStatus)
    \/ Feed(FilterPresubmits)
    \/ Feed(CreateStatus)
    \/ Feed(Return)
    \/ Feed(CreateComment)
    \/ Again

SpecReplay == InitSame /\ [][NextReplay]_vars

\* an invocation, then a second one served from what the first one left
NextRerun ==
    \/ Serve(Gate)
    \/ Serve(GetPullRequest)
    \/ Serve(GetPresubmits)
    \/ Serve(GetCombinedStatus)
    \/ Serve(FilterPresubmits)
    \/ Serve(CreateStatus)
    \/ Serve(Return)
    \/ Serve(CreateComment)
    \/ Again

SpecRerun == InitSame /\ [][NextRerun]_vars

\* every call the step has added succeeded
NoFailure == \A k \in 1..Len(NewCalls) : NewCalls[k].ok

\* two invocations side by side, no call of theirs failing
NextConcurrent ==
    \/ Serve(Gate)
    \/ Serve(GetPullRequest) /\ NoFailure
    \/ Serve(GetPresubmits) /\ NoFailure
    \/ Serve(GetCombinedStatus) /\ NoFailure
    \/ Serve(FilterPresubmits) /\ NoFailure
    \/ Serve(CreateStatus) /\ NoFailure
    \/ Serve(Return)
    \/ Switch

SpecConcurrent == InitPair /\ [][NextConcurrent]_vars

----------------------------------------------------------------------------
(* Properties of two invocations *)

\* the status writes among some calls, in call order: the commit and the status
RECURSIVE WritesOf(_)
WritesOf(cs) ==
    IF cs = <<>> THEN <<>>
    ELSE IF Head(cs).op = "CreateStatus"
         THEN <<[ref |-> Head(cs).ref, status |-> Head(cs).status]>> \o WritesOf(Tail(cs))
         ELSE WritesOf(Tail(cs))

RECURSIVE AfterWrites(_, _)
AfterWrites(statuses, cs) ==
    IF cs = <<>> THEN statuses
    ELSE IF Head(cs).op = "CreateStatus" /\ Head(cs).ok
         THEN AfterWrites(Report(statuses, Head(cs).status), Tail(cs))
         ELSE AfterWrites(statuses, Tail(cs))

\* the first invocation has returned with none of its calls failing, and the
\* second one is stepping
FirstSucceeded ==
    /\ SecondRuns
    /\ \A k \in 1..Len(other.calls) : other.calls[k].ok

StateIn(statuses, context) ==
    IF \E k \in 1..Len(statuses) : statuses[k].Context = context
    THEN statuses[CHOOSE k \in 1..Len(statuses) : statuses[k].Context = context].State
    ELSE "none"

\* both invocations have returned
BothReturned == pc = "done" /\ other.pc = "done"

\* the comment of invocation i leaves a configured check of the context to be skipped
SkippedBy(i, context) ==
    \E k \in 1..Len(env.config) :
        /\ env.config[k].Context = context
        /\ ~env.config[k].Required
        /\ [Name |-> env.config[k].Name, Context |-> context] \notin env.overlap[i]

\* the state of a context once both invocations are through, whatever their order
FinalState(context) ==
    LET was == StateIn(env.initial, context)
    IN  IF was \notin {"none", "success"} /\ (SkippedBy(1, context) \/ SkippedBy(2, context))
        THEN "success"
        ELSE was

\* C15: two invocations side by side, each deciding on the statuses it read
\* once, no call failing and nobody else writing: a context that was success
\* stays success, the context of a required check keeps its state, and when
\* both have returned every context has the state the checks, the first
\* statuses and the two overlaps determine, whatever the order of the reads
\* and writes was.
C15_Confluent ==
    /\ \A c \in Contexts :
          StateIn(env.initial, c) = "success" => StateIn(remote, c) = "success"
    /\ \A k \in 1..Len(env.config) :
          env.config[k].Required =>
              StateIn(remote, env.config[k].Context) = StateIn(env.initial, env.config[k].Context)
    /\ BothReturned => \A c \in Contexts : StateIn(remote, c) = FinalState(c)

\* both invocations read the statuses before either wrote, and both wrote
\* the same context
C15_Witness ==
    /\ BothReturned
    /\ \E a \in 1..Len(calls), b \in 1..Len(other.calls) :
          /\ calls[a].op = "CreateStatus"
          /\ other.calls[b].op = "CreateStatus"
          /\ calls[a].status.Context = other.calls[b].status.Context
====
